---- MODULE Spec2Model ----
(***************************************************************************)
(* PIN-indexed file transfer store of app.py: the metadata snapshot        *)
(* (file_metadata.json), the blobs in STORAGE_DIR, the lock file_lock, and *)
(* the script runs (one per session thread) that sweep, upload and         *)
(* download.  Text (PINs, file names, user input) is a sequence of         *)
(* one-character strings; time is counted in hours.                        *)
(***************************************************************************)
EXTENDS Integers, Sequences, FiniteSets, TLC

(* ------------------------------ bounds -------------------------------- *)
\* script runs started in one behaviour
MaxRuns == 3
\* last hour the clock reaches
MaxClock == 25
\* largest number random.randint draws in the model (9999 in the code)
MaxPin == 1001

(* ------------------------- program constants -------------------------- *)
\* random.randint(1000, 9999): the smallest number drawn
PinLo == 1000
\* len(pin_input) == 4
PinLen == 4
\* timedelta(hours=24)
RETENTION == 24

\* session threads that run the script concurrently
Procs == {1, 2}
NoProc == 0

(* ------------------------------- text --------------------------------- *)
AsciiDigits == <<"0", "1", "2", "3", "4", "5", "6", "7", "8", "9">>

\* characters str.isdigit accepts: the ASCII digits and the other Unicode
\* digits, here SUPERSCRIPT TWO (U+00B2) and ARABIC-INDIC DIGIT THREE (U+0663)
DigitChars == {AsciiDigits[i] : i \in 1..10} \cup {"U+00B2", "U+0663"}

RECURSIVE Format(_)
\* f"{n}": the decimal digits of n, no padding
Format(n) ==
  IF n < 10 THEN <<AsciiDigits[n + 1]>>
  ELSE Format(n \div 10) \o <<AsciiDigits[(n % 10) + 1]>>

\* str.isdigit: non-empty and every character a digit
IsDigit(s) == Len(s) > 0 /\ \A i \in 1..Len(s) : s[i] \in DigitChars

\* len(pin_input) == 4 and pin_input.isdigit()
WellFormed(s) == Len(s) = PinLen /\ IsDigit(s)

\* os.path.join(STORAGE_DIR, f"{pin}_{uploaded_file.name}")
FilePath(p, name) == p \o <<"_">> \o name

(* ------------------------------- time --------------------------------- *)
\* conversions that keep the date and drop the hour of the day
IsoFormatDate(t) == <<t \div 24, 0>>
FromIsoFormatDate(s) == s[1] * 24

\* datetime.isoformat / datetime.fromisoformat: the timestamp as text,
\* <<day, hour of day>>, and back
IsoFormat(t) == <<t \div 24, t % 24>>
FromIsoFormat(s) == s[1] * 24 + s[2]

\* current_time - file_info['upload_time'] > timedelta(hours=24)
ExpiredAtOrAfter(cur, t) == cur - t >= RETENTION
Expired(cur, t) == cur - t > RETENTION

(* ------------------------------ tables -------------------------------- *)
EmptyTable == [x \in {} |-> x]

\* serializable_data of save_file_metadata: upload_time as ISO text
Serialize(md) ==
  [k \in DOMAIN md |-> [md[k] EXCEPT !.upload_time = IsoFormat(@)]]

\* json.load plus the conversion of the timestamps back to datetime
Parse(data) ==
  [k \in DOMAIN data |-> [data[k] EXCEPT !.upload_time = FromIsoFormat(@)]]

\* for pin in pins_to_remove: del metadata[pin]
RemoveNone(md, pins) == md
Remove(md, pins) == [k \in (DOMAIN md) \ pins |-> md[k]]

\* metadata[pin] = {...}
Put(md, k, info) == [j \in (DOMAIN md) \cup {k} |-> IF j = k THEN info ELSE md[j]]

\* os.remove(path) when os.path.exists(path); a missing path changes nothing
BlobRemove(bs, path) == [q \in (DOMAIN bs) \ {path} |-> bs[q]]

(* ------------------------------ inputs -------------------------------- *)
\* the file session p offers to st.file_uploader: name, bytes (getvalue) and
\* MIME type; both sessions upload under the same name
UploadedFiles(p) ==
  IF p = 1 THEN {[name |-> <<"r">>, data |-> <<1>>, type |-> "application/pdf"]}
  ELSE {[name |-> <<"r">>, data |-> <<2, 2>>, type |-> ""]}

\* texts the PIN field hands to the script (the browser enforces max_chars=4;
\* the script itself checks the length only at `len(pin_input) == 4`)
PinInputs ==
  { <<>>, <<"1", "2">>, <<"1", "2", "a", "4">>, <<"9", "9", "9", "9", "9">>,
    <<"1", "2", "U+00B2", "4">>, <<"0", "9", "9", "9">>,
    Format(PinLo), Format(PinLo + 1) }

(* ------------------------------- state -------------------------------- *)
VARIABLES
  now,             \* datetime.now(), in hours
  metadata_file,   \* METADATA_FILE: exists, torn (opened 'w', not yet written), data
  file_lock,       \* holder of file_lock, or NoProc
  blobs,           \* files of STORAGE_DIR: path -> bytes
  pc,              \* position of each session thread in the script
  req,             \* what the run was asked: the uploaded file or the PIN typed
  metadata,        \* local `metadata` of the function in progress
  pin,             \* local `pin` (generate_pin, save_file_with_pin)
  pins_to_remove,  \* local of cleanup_old_files
  todo,            \* expired pins the loop of cleanup_old_files has yet to visit
  file_info,       \* result of get_file_by_pin: <<>> (None) or <<record>>
  out,             \* the message the run shows to its user
  runs,            \* script runs started
  regs,            \* history: uploads reported as successful
  snapshot,        \* history: the table cleanup_old_files loaded, and its clock
  expect,          \* history: the uploads known for the PIN when it was looked up
  chain            \* history: undisturbed sweeps in succession

shared == <<now, metadata_file, file_lock, blobs>>
locals == <<pc, req, metadata, pin, pins_to_remove, todo, file_info, out>>
history == <<runs, regs, snapshot, expect, chain>>
vars == <<shared, locals, history>>

NoReq == [kind |-> "none", name |-> <<>>, data |-> <<>>, type |-> "", pin_input |-> <<>>]
NoSnapshot == [table |-> EmptyTable, current_time |-> 0]
NoChain == [stage |-> 0, who |-> NoProc, swept |-> 0, removed |-> FALSE]

Init ==
  /\ now = 0
  /\ metadata_file = [exists |-> FALSE, torn |-> FALSE, data |-> EmptyTable]
  /\ file_lock = NoProc
  /\ blobs = EmptyTable
  /\ pc = [p \in Procs |-> "idle"]
  /\ req = [p \in Procs |-> NoReq]
  /\ metadata = [p \in Procs |-> EmptyTable]
  /\ pin = [p \in Procs |-> <<>>]
  /\ pins_to_remove = [p \in Procs |-> {}]
  /\ todo = [p \in Procs |-> {}]
  /\ file_info = [p \in Procs |-> <<>>]
  /\ out = [p \in Procs |-> "none"]
  /\ runs = 0
  /\ regs = {}
  /\ snapshot = [p \in Procs |-> NoSnapshot]
  /\ expect = [p \in Procs |-> {}]
  /\ chain = NoChain

(* ------------------------- the metadata store ------------------------- *)
\* the table of the last complete snapshot (while the file is torn: the one
\* that open(METADATA_FILE, 'w') has truncated away)
LastComplete ==
  IF metadata_file.exists THEN Parse(metadata_file.data) ELSE EmptyTable

\* the table a save in progress is writing
Pending ==
  IF metadata_file.torn THEN metadata[file_lock] ELSE LastComplete

\* load_file_metadata: {} when the file is missing, and {} when json.load
\* raises on a file that a save has opened with 'w' and not yet written
load_file_metadata ==
  IF metadata_file.exists /\ ~metadata_file.torn
  THEN Parse(metadata_file.data)
  ELSE EmptyTable

(* ------------------- history of undisturbed sweeps -------------------- *)
\* stage 1: a sweep (of who) is running and no other thread has written the
\* store or the clock moved since it loaded; stage 2: it has returned and the
\* store and the clock are as it left them.  swept counts the sweeps of the
\* chain (up to 2), removed tells that its first sweep removed entries.
ChainLoad(p, returns) ==
  IF chain.stage = 2
  THEN IF returns THEN [chain EXCEPT !.swept = 2]
       ELSE [stage |-> 1, who |-> p, swept |-> 0, removed |-> TRUE]
  ELSE IF chain.stage = 1 /\ chain.who # p THEN chain
  ELSE IF returns THEN [stage |-> 2, who |-> NoProc, swept |-> 1, removed |-> FALSE]
  ELSE [stage |-> 1, who |-> p, swept |-> 0, removed |-> TRUE]

\* a step of p that writes the store; inSweep: a step of cleanup_old_files
ChainWrite(p, inSweep) ==
  IF inSweep /\ chain.who = p /\ chain.stage = 1 THEN chain ELSE NoChain

ChainReturn(p) ==
  IF chain.who = p /\ chain.stage = 1
  THEN [stage |-> 2, who |-> NoProc, swept |-> 1, removed |-> TRUE]
  ELSE NoChain

(* --------------------------- the clock -------------------------------- *)
\* the hours at which the clock is observed: 0 and 1, then hourly from the
\* hour the retention window of an upload at hour 0 closes
ClockAfter(t) == IF t < 1 THEN 1 ELSE IF t < RETENTION THEN RETENTION ELSE t + 1

Tick ==
  /\ now < MaxClock
  /\ now' = ClockAfter(now)
  /\ chain' = NoChain
  /\ UNCHANGED <<metadata_file, file_lock, blobs, locals, runs, regs, snapshot, expect>>

(* ----------------------- cleanup_old_files ---------------------------- *)
\* pins of the loaded table that the loop finds expired
ExpiredPins(md, cur) == {k \in DOMAIN md : Expired(cur, md[k].upload_time)}

\* a script run starts: cleanup_old_files loads the table and reads the clock;
\* with nothing expired it returns 0 at once
CleanupLoad(p) ==
  /\ pc[p] = "idle"
  /\ runs < MaxRuns
  /\ runs' = runs + 1
  /\ LET md == load_file_metadata
         exp == ExpiredPins(md, now)
     IN IF exp = {}
        THEN /\ pc' = [pc EXCEPT ![p] = "tabs"]
             /\ chain' = ChainLoad(p, TRUE)
             /\ UNCHANGED <<metadata, todo, snapshot>>
        ELSE /\ pc' = [pc EXCEPT ![p] = "cl_remove"]
             /\ metadata' = [metadata EXCEPT ![p] = md]
             /\ todo' = [todo EXCEPT ![p] = exp]
             /\ snapshot' = [snapshot EXCEPT ![p] = [table |-> md, current_time |-> now]]
             /\ chain' = ChainLoad(p, FALSE)
  /\ UNCHANGED <<shared, req, pin, pins_to_remove, file_info, out, regs, expect>>

\* one iteration of the loop on an expired pin: os.remove of its file when it
\* exists, then pins_to_remove.append; after the last one the expired entries
\* are deleted from the local table
CleanupRemove(p, k) ==
  /\ pc[p] = "cl_remove"
  /\ k \in todo[p]
  /\ blobs' = BlobRemove(blobs, metadata[p][k].filepath)
  /\ todo' = [todo EXCEPT ![p] = @ \ {k}]
  /\ pins_to_remove' = [pins_to_remove EXCEPT ![p] = @ \cup {k}]
  /\ IF todo[p] = {k}
     THEN /\ metadata' = [metadata EXCEPT ![p] = Remove(@, pins_to_remove'[p])]
          /\ pc' = [pc EXCEPT ![p] = "cl_open"]
     ELSE UNCHANGED <<metadata, pc>>
  /\ chain' = ChainWrite(p, TRUE)
  /\ UNCHANGED <<now, metadata_file, file_lock, req, pin, file_info, out,
                 runs, regs, snapshot, expect>>

(* ----------------------- save_file_metadata --------------------------- *)
SavePc == [cl_open |-> "cl_write", reg_open |-> "reg_write", st_open |-> "st_write"]

\* with file_lock: ... open(METADATA_FILE, 'w'): the lock is taken and the
\* file is truncated
SaveOpen(p) ==
  /\ pc[p] \in DOMAIN SavePc
  /\ file_lock = NoProc
  /\ file_lock' = p
  /\ metadata_file' = [metadata_file EXCEPT !.exists = TRUE, !.torn = TRUE]
  /\ pc' = [pc EXCEPT ![p] = SavePc[pc[p]]]
  /\ chain' = ChainWrite(p, pc[p] = "cl_open")
  /\ UNCHANGED <<now, blobs, req, metadata, pin, pins_to_remove, todo, file_info,
                 out, runs, regs, snapshot, expect>>

\* json.dump(serializable_data, f), the file is closed and the lock released
Written(p) ==
  /\ file_lock = p
  /\ file_lock' = NoProc
  /\ metadata_file' =
       [exists |-> TRUE, torn |-> FALSE, data |-> Serialize(metadata[p])]

\* the save of cleanup_old_files completes; return len(pins_to_remove)
CleanupSaved(p) ==
  /\ pc[p] = "cl_write"
  /\ Written(p)
  /\ chain' = ChainReturn(p)
  /\ pc' = [pc EXCEPT ![p] = "tabs"]
  /\ metadata' = [metadata EXCEPT ![p] = EmptyTable]
  /\ pins_to_remove' = [pins_to_remove EXCEPT ![p] = {}]
  /\ snapshot' = [snapshot EXCEPT ![p] = NoSnapshot]
  /\ UNCHANGED <<now, blobs, req, pin, todo, file_info, out, runs, regs, expect>>

(* ------------------------------ upload -------------------------------- *)
\* numbers random.randint(1000, 9999) draws
Draws == PinLo..MaxPin

\* PINs the loop of generate_pin can return: drawn and not in the table loaded
FreePins(md) == {Format(n) : n \in Draws} \ DOMAIN md

\* the upload button with one file: generate_pin loads the table and draws
\* until a candidate is not in it, which it returns; with no such candidate
\* the loop has no exit
GenLoad(p, f, k) ==
  /\ pc[p] = "tabs"
  /\ f \in UploadedFiles(p)
  /\ req' = [req EXCEPT ![p] = [kind |-> "upload", name |-> f.name, data |-> f.data,
                                type |-> f.type, pin_input |-> <<>>]]
  /\ LET md == load_file_metadata
     IN IF FreePins(md) = {}
        THEN /\ k = <<>>
             /\ metadata' = [metadata EXCEPT ![p] = md]
             /\ pc' = [pc EXCEPT ![p] = "gen_draw"]
             /\ pin' = pin
        ELSE /\ k \in FreePins(md)
             /\ pin' = [pin EXCEPT ![p] = k]
             /\ pc' = [pc EXCEPT ![p] = "blob_write"]
             /\ metadata' = metadata
  /\ UNCHANGED <<shared, pins_to_remove, todo, file_info, out, history>>

\* a further turn of `while True`: a candidate is drawn and returned when it
\* is not in the table loaded; otherwise the loop goes round again
GenDraw(p, n) ==
  /\ pc[p] = "gen_draw"
  /\ n \in Draws
  /\ pin' = [pin EXCEPT ![p] = Format(n)]
  /\ IF Format(n) \notin DOMAIN metadata[p]
     THEN /\ pc' = [pc EXCEPT ![p] = "blob_write"]
          /\ metadata' = [metadata EXCEPT ![p] = EmptyTable]
     ELSE UNCHANGED <<pc, metadata>>
  /\ UNCHANGED <<shared, req, pins_to_remove, todo, file_info, out, history>>

\* save_file_with_pin: the bytes are written to STORAGE_DIR/<pin>_<name>
BlobWrite(p) ==
  /\ pc[p] = "blob_write"
  /\ blobs' = Put(blobs, FilePath(pin[p], req[p].name), req[p].data)
  /\ pc' = [pc EXCEPT ![p] = "reg_load"]
  /\ chain' = ChainWrite(p, FALSE)
  /\ UNCHANGED <<now, metadata_file, file_lock, req, metadata, pin, pins_to_remove,
                 todo, file_info, out, runs, regs, snapshot, expect>>

\* the record save_file_with_pin adds for the file
NewInfo(p) ==
  [filename |-> req[p].name, filepath |-> FilePath(pin[p], req[p].name),
   size |-> Len(req[p].data), upload_time |-> now, type |-> req[p].type]

\* save_file_with_pin: the table is loaded again and the record is added to it
RegLoad(p) ==
  /\ pc[p] = "reg_load"
  /\ metadata' = [metadata EXCEPT ![p] = Put(load_file_metadata, pin[p], NewInfo(p))]
  /\ pc' = [pc EXCEPT ![p] = "reg_open"]
  /\ UNCHANGED <<shared, req, pin, pins_to_remove, todo, file_info, out, history>>

\* the save of save_file_with_pin completes and the PIN is shown to the user
RegisterSaved(p) ==
  /\ pc[p] = "reg_write"
  /\ Written(p)
  /\ regs' = regs \cup {[pin |-> pin[p], at |-> metadata[p][pin[p]].upload_time,
                         data |-> req[p].data]}
  /\ out' = [out EXCEPT ![p] = "pin"]
  /\ pc' = [pc EXCEPT ![p] = "admin"]
  /\ req' = [req EXCEPT ![p] = NoReq]
  /\ metadata' = [metadata EXCEPT ![p] = EmptyTable]
  /\ pin' = [pin EXCEPT ![p] = <<>>]
  /\ chain' = ChainWrite(p, FALSE)
  /\ UNCHANGED <<now, blobs, pins_to_remove, todo, file_info, runs, snapshot, expect>>

(* ----------------------------- download ------------------------------- *)
DownloadReq(s) ==
  [kind |-> "download", name |-> <<>>, data |-> <<>>, type |-> "", pin_input |-> s]

\* `if pin_input:` is false: nothing was typed and nothing is shown
NoInput(p) ==
  /\ pc[p] = "tabs"
  /\ out' = [out EXCEPT ![p] = "nothing"]
  /\ pc' = [pc EXCEPT ![p] = "admin"]
  /\ UNCHANGED <<shared, req, metadata, pin, pins_to_remove, todo, file_info, history>>

\* the text typed fails `len(pin_input) == 4 and pin_input.isdigit()`:
\* "Please enter a valid 4-digit PIN"
Malformed(p, s) ==
  /\ pc[p] = "tabs"
  /\ s \in PinInputs
  /\ s # <<>>
  /\ ~WellFormed(s)
  /\ out' = [out EXCEPT ![p] = "InvalidPin"]
  /\ pc' = [pc EXCEPT ![p] = "admin"]
  /\ UNCHANGED <<shared, req, metadata, pin, pins_to_remove, todo, file_info, history>>

\* a lookup that answers with a record whatever the key
GetAny(md, k) == IF md = EmptyTable THEN <<>> ELSE <<md[CHOOSE j \in DOMAIN md : TRUE]>>

\* metadata.get(pin): None (<<>>) or the record
Get(md, k) == IF k \in DOMAIN md THEN <<md[k]>> ELSE <<>>

\* the text passes the check: get_file_by_pin loads the table and looks the
\* PIN up; without a record "Invalid PIN or file has expired" is shown
DlLookup(p, s) ==
  /\ pc[p] = "tabs"
  /\ s \in PinInputs
  /\ s # <<>>
  /\ WellFormed(s)
  /\ LET info == Get(load_file_metadata, s)
     IN IF info # <<>>
        THEN /\ pc' = [pc EXCEPT ![p] = "dl_exists"]
             /\ req' = [req EXCEPT ![p] = DownloadReq(s)]
             /\ file_info' = [file_info EXCEPT ![p] = info]
             /\ expect' = [expect EXCEPT ![p] = {r \in regs : r.pin = s}]
             /\ out' = [out EXCEPT ![p] = "found"]
        ELSE /\ pc' = [pc EXCEPT ![p] = "admin"]
             /\ req' = [req EXCEPT ![p] = DownloadReq(s)]
             /\ out' = [out EXCEPT ![p] = "Absent"]
             /\ UNCHANGED <<file_info, expect>>
  /\ UNCHANGED <<shared, metadata, pin, pins_to_remove, todo,
                 runs, regs, snapshot, chain>>

\* os.path.exists(file_info['filepath'])
DlExists(p) ==
  /\ pc[p] = "dl_exists"
  /\ IF file_info[p][1].filepath \in DOMAIN blobs
     THEN pc' = [pc EXCEPT ![p] = "dl_read"]
     ELSE pc' = [pc EXCEPT ![p] = "st_load"]
  /\ UNCHANGED <<shared, req, metadata, pin, pins_to_remove, todo, file_info, out,
                 history>>

\* the download path has shown its result: its locals are dropped
DownloadDone(p, tag) ==
  /\ out' = [out EXCEPT ![p] = tag]
  /\ pc' = [pc EXCEPT ![p] = "admin"]
  /\ req' = [req EXCEPT ![p] = NoReq]
  /\ file_info' = [file_info EXCEPT ![p] = <<>>]
  /\ expect' = [expect EXCEPT ![p] = {}]

\* open(file_info['filepath'], 'rb').read() for the download button; when the
\* file has gone in between: "Error reading file"
DlRead(p) ==
  /\ pc[p] = "dl_read"
  /\ IF file_info[p][1].filepath \in DOMAIN blobs
     THEN DownloadDone(p, "bytes")
     ELSE DownloadDone(p, "error")
  /\ UNCHANGED <<shared, metadata, pin, pins_to_remove, todo,
                 runs, regs, snapshot, chain>>

\* "File not found on disk": the table is loaded again and the entry of the
\* PIN, when it is there, is deleted from it
StaleLoad(p) ==
  /\ pc[p] = "st_load"
  /\ LET md == load_file_metadata
     IN IF req[p].pin_input \in DOMAIN md
        THEN /\ metadata' = [metadata EXCEPT ![p] = Remove(md, {req[p].pin_input})]
             /\ pc' = [pc EXCEPT ![p] = "st_open"]
             /\ UNCHANGED <<req, file_info, expect, out>>
        ELSE /\ metadata' = metadata
             /\ DownloadDone(p, "Absent")
  /\ UNCHANGED <<shared, pin, pins_to_remove, todo, runs, regs, snapshot, chain>>

\* the save of the stale-entry cleanup completes
StaleSaved(p) ==
  /\ pc[p] = "st_write"
  /\ Written(p)
  /\ DownloadDone(p, "Absent")
  /\ metadata' = [metadata EXCEPT ![p] = EmptyTable]
  /\ chain' = ChainWrite(p, FALSE)
  /\ UNCHANGED <<now, blobs, pin, pins_to_remove, todo, runs, regs, snapshot>>

(* ---------------------------- end of run ------------------------------ *)
\* the admin view at the end of the script loads the table once more; the
\* run is over
AdminLoad(p) ==
  /\ pc[p] = "admin"
  /\ pc' = [pc EXCEPT ![p] = "idle"]
  /\ out' = [out EXCEPT ![p] = "none"]
  /\ req' = [req EXCEPT ![p] = NoReq]
  /\ UNCHANGED <<shared, metadata, pin, pins_to_remove, todo, file_info, history>>

Next ==
  \/ Tick
  \/ \E p \in Procs : CleanupLoad(p)
  \/ \E p \in Procs : \E k \in todo[p] : CleanupRemove(p, k)
  \/ \E p \in Procs : SaveOpen(p)
  \/ \E p \in Procs : CleanupSaved(p)
  \/ \E p \in Procs : \E f \in UploadedFiles(p) : \E k \in {<<>>} \cup {Format(n) : n \in Draws} :
       GenLoad(p, f, k)
  \/ \E p \in Procs : \E n \in Draws : GenDraw(p, n)
  \/ \E p \in Procs : BlobWrite(p)
  \/ \E p \in Procs : RegLoad(p)
  \/ \E p \in Procs : RegisterSaved(p)
  \/ \E p \in Procs : NoInput(p)
  \/ \E p \in Procs : \E s \in PinInputs : Malformed(p, s)
  \/ \E p \in Procs : \E s \in PinInputs : DlLookup(p, s)
  \/ \E p \in Procs : DlExists(p)
  \/ \E p \in Procs : DlRead(p)
  \/ \E p \in Procs : StaleLoad(p)
  \/ \E p \in Procs : StaleSaved(p)
  \/ \E p \in Procs : AdminLoad(p)

Spec == Init /\ [][Next]_vars

(* --------------------------- I/O failures ----------------------------- *)
\* save_file_metadata raises inside `with file_lock:` and its handler
\* swallows the exception: raised by open(METADATA_FILE, 'w') the file is as
\* it was, raised by json.dump the file stays truncated; the lock is released
\* and the caller goes on as after a save
SaveRaised(p) ==
  IF pc[p] \in DOMAIN SavePc
  THEN /\ file_lock = NoProc
       /\ UNCHANGED <<metadata_file, file_lock>>
  ELSE /\ file_lock = p
       /\ file_lock' = NoProc
       /\ metadata_file' = metadata_file

\* the save of save_file_with_pin raises: save_file_with_pin returns file_path
\* all the same and the PIN is shown to the user
RegisterSaveFailed(p) ==
  /\ pc[p] \in {"reg_open", "reg_write"}
  /\ SaveRaised(p)
  /\ regs' = regs \cup {[pin |-> pin[p], at |-> metadata[p][pin[p]].upload_time,
                         data |-> req[p].data]}
  /\ out' = [out EXCEPT ![p] = "pin"]
  /\ pc' = [pc EXCEPT ![p] = "admin"]
  /\ req' = [req EXCEPT ![p] = NoReq]
  /\ metadata' = [metadata EXCEPT ![p] = EmptyTable]
  /\ pin' = [pin EXCEPT ![p] = <<>>]
  /\ chain' = NoChain
  /\ UNCHANGED <<now, blobs, pins_to_remove, todo, file_info, runs, snapshot, expect>>

\* the save of cleanup_old_files raises: return len(pins_to_remove) all the same
CleanupSaveFailed(p) ==
  /\ pc[p] \in {"cl_open", "cl_write"}
  /\ SaveRaised(p)
  /\ chain' = NoChain
  /\ pc' = [pc EXCEPT ![p] = "tabs"]
  /\ metadata' = [metadata EXCEPT ![p] = EmptyTable]
  /\ pins_to_remove' = [pins_to_remove EXCEPT ![p] = {}]
  /\ snapshot' = [snapshot EXCEPT ![p] = NoSnapshot]
  /\ UNCHANGED <<now, blobs, req, pin, todo, file_info, out, runs, regs, expect>>

\* the save of the stale-entry cleanup raises
StaleSaveFailed(p) ==
  /\ pc[p] \in {"st_open", "st_write"}
  /\ SaveRaised(p)
  /\ DownloadDone(p, "Absent")
  /\ metadata' = [metadata EXCEPT ![p] = EmptyTable]
  /\ chain' = NoChain
  /\ UNCHANGED <<now, blobs, pin, pins_to_remove, todo, runs, regs, snapshot>>

\* open(file_path, "wb") or f.write raises: save_file_with_pin raises
\* "Failed to save file" and the upload loop lists the file as failed; the
\* blob is untouched or left partial (here: empty)
BlobWriteFailed(p, partial) ==
  /\ pc[p] = "blob_write"
  /\ blobs' = IF partial THEN Put(blobs, FilePath(pin[p], req[p].name), <<>>) ELSE blobs
  /\ out' = [out EXCEPT ![p] = "failed"]
  /\ pc' = [pc EXCEPT ![p] = "admin"]
  /\ req' = [req EXCEPT ![p] = NoReq]
  /\ pin' = [pin EXCEPT ![p] = <<>>]
  /\ chain' = NoChain
  /\ UNCHANGED <<now, metadata_file, file_lock, metadata, pins_to_remove, todo,
                 file_info, runs, regs, snapshot, expect>>

\* os.remove raises OSError in the loop of cleanup_old_files: `pass`, the
\* file stays and the pin is appended to pins_to_remove all the same
CleanupRemoveFailed(p, k) ==
  /\ pc[p] = "cl_remove"
  /\ k \in todo[p]
  /\ metadata[p][k].filepath \in DOMAIN blobs
  /\ todo' = [todo EXCEPT ![p] = @ \ {k}]
  /\ pins_to_remove' = [pins_to_remove EXCEPT ![p] = @ \cup {k}]
  /\ IF todo[p] = {k}
     THEN /\ metadata' = [metadata EXCEPT ![p] = Remove(@, pins_to_remove'[p])]
          /\ pc' = [pc EXCEPT ![p] = "cl_open"]
     ELSE UNCHANGED <<metadata, pc>>
  /\ chain' = NoChain
  /\ UNCHANGED <<now, metadata_file, file_lock, blobs, req, pin, file_info, out,
                 runs, regs, snapshot, expect>>

\* the script with I/O failures
NextIO ==
  \/ Next
  \/ \E p \in Procs : RegisterSaveFailed(p)
  \/ \E p \in Procs : CleanupSaveFailed(p)
  \/ \E p \in Procs : StaleSaveFailed(p)
  \/ \E p \in Procs : \E partial \in BOOLEAN : BlobWriteFailed(p, partial)
  \/ \E p \in Procs : \E k \in todo[p] : CleanupRemoveFailed(p, k)

SpecIO == Init /\ [][NextIO]_vars

(* ====================================================================== *)
(*                               properties                                *)
(* ====================================================================== *)
\* an upload whose retention window is still open
Live(r) == now - r.at <= RETENTION

\* the persisted record of a pin still lies within its retention window
Fresh(info, t) == t - info.upload_time <= RETENTION

\* a PIN as specified: exactly 4 ASCII digits
ValidPin(s) ==
  /\ Len(s) = 4
  /\ \A i \in 1..Len(s) : s[i] \in {AsciiDigits[j] : j \in 1..10}

\* session p reads the PIN field holding the text s
Typed(p, s) == IF s = <<>> THEN NoInput(p) ELSE Malformed(p, s) \/ DlLookup(p, s)

\* session p calls load_file_metadata
Loads(p) ==
  \/ CleanupLoad(p)
  \/ \E f \in UploadedFiles(p) : \E k \in {<<>>} \cup {Format(n) : n \in Draws} : GenLoad(p, f, k)
  \/ RegLoad(p)
  \/ \E s \in PinInputs : DlLookup(p, s)
  \/ StaleLoad(p)
  \/ AdminLoad(p)

\* generate_pin returns
GenReturn(p) == \E n \in Draws : GenDraw(p, n) /\ pc'[p] # "gen_draw"

(* ------------------------------- C1 ----------------------------------- *)
\* C1: no two uploads reported as successful hold the same PIN while both are
\* within their retention window.
C1_UniquePins ==
  \A r1, r2 \in regs : (r1 # r2 /\ r1.pin = r2.pin) => (~Live(r1) \/ ~Live(r2))

(* ------------------------------- C2 ----------------------------------- *)
\* C2: no lost update between registers: the save that completes a register
\* leaves in the persisted table every record the table held before it.
C2_NoLostUpdate ==
  [][\A p \in Procs : RegisterSaved(p) =>
        \A k \in DOMAIN LastComplete : k \in DOMAIN LastComplete']_vars

(* ------------------------------- C3 ----------------------------------- *)
\* C3: a record registered under a PIN that was not in the snapshot a sweep
\* loaded is still in the persisted table, with its blob, after the sweep's
\* save.
C3_SweepKeepsNewRecords ==
  [][\A p \in Procs : CleanupSaved(p) =>
        \A k \in DOMAIN LastComplete :
          k \notin DOMAIN snapshot[p].table
            => /\ k \in DOMAIN LastComplete'
               /\ LastComplete'[k] = LastComplete[k]
               /\ LastComplete[k].filepath \in DOMAIN blobs']_vars

(* ------------------------------- C4 ----------------------------------- *)
\* C4: a download of a PIN whose upload was reported successful and is within
\* its retention window yields exactly the bytes uploaded.
C4_RoundTrip ==
  [][\A p \in Procs :
       /\ \A s \in PinInputs :
            (DlLookup(p, s) /\ out'[p] = "Absent") => \A r \in regs : r.pin = s => ~Live(r)
       /\ DlRead(p) =>
            \A r \in expect[p] : Live(r) =>
              /\ out'[p] = "bytes"
              /\ blobs[file_info[p][1].filepath] = r.data
       /\ ((StaleLoad(p) \/ StaleSaved(p)) /\ out'[p] = "Absent") =>
            \A r \in expect[p] : ~Live(r)]_vars

(* ------------------------------- C5 ----------------------------------- *)
\* C5: a sweep removes exactly the records of the table it loaded that are
\* more than 24 hours old: with none it changes nothing, otherwise the table
\* it saves is the loaded one without them (a record exactly 24 hours old
\* stays).
C5_SweepThreshold ==
  [][\A p \in Procs :
       /\ CleanupLoad(p) =>
            LET md == load_file_metadata
                old == {k \in DOMAIN md : now - md[k].upload_time > 24}
            IN IF old = {}
               THEN pc'[p] = "tabs" /\ metadata_file' = metadata_file /\ blobs' = blobs
               ELSE pc'[p] = "cl_remove" /\ todo'[p] = old
       /\ CleanupSaved(p) =>
            LET snap == snapshot[p].table
                old == {k \in DOMAIN snap : snapshot[p].current_time - snap[k].upload_time > 24}
            IN /\ pins_to_remove[p] = old
               /\ DOMAIN LastComplete' = (DOMAIN snap) \ old
               /\ \A k \in DOMAIN LastComplete' : LastComplete'[k] = snap[k]]_vars

\* a sweep is saving after it removed a record 25 hours old and kept one
\* exactly 24 hours old
C5_Witness ==
  \E p \in Procs :
    /\ pc[p] = "cl_write"
    /\ \E k \in pins_to_remove[p] :
         snapshot[p].current_time - snapshot[p].table[k].upload_time = 25
    /\ \E k \in DOMAIN metadata[p] :
         snapshot[p].current_time - metadata[p][k].upload_time = 24

(* ------------------------------- C6 ----------------------------------- *)
\* C6: a sweep that starts after an undisturbed sweep has returned, with the
\* store and the clock as that sweep left them, removes nothing: it returns at
\* once (count 0) and leaves the persisted table and the blobs unchanged.
C6_SweepIdempotent ==
  [][\A p \in Procs : (CleanupLoad(p) /\ chain.stage = 2) =>
        /\ pc'[p] = "tabs"
        /\ pins_to_remove'[p] = {}
        /\ metadata_file' = metadata_file
        /\ blobs' = blobs]_vars

\* two sweeps in succession have returned, the first having removed entries
C6_Witness == chain.stage = 2 /\ chain.swept = 2 /\ chain.removed

(* ------------------------------- C7 ----------------------------------- *)
\* C7: every text that is not exactly 4 ASCII digits is answered with
\* InvalidPin, without a lookup in the store.
C7_MalformedRejected ==
  [][\A p \in Procs : \A s \in PinInputs :
       (Typed(p, s) /\ ~ValidPin(s)) => (out'[p] = "InvalidPin" /\ ~DlLookup(p, s))]_vars

(* ------------------------------- C8 ----------------------------------- *)
\* C8: the lookup of a PIN never returns a record older than the retention
\* window.
C8_NoExpiredRecord ==
  [][\A p \in Procs : \A s \in PinInputs :
       (DlLookup(p, s) /\ out'[p] = "found") => Fresh(file_info'[p][1], now)]_vars

(* ------------------------------- C9 ----------------------------------- *)
\* C9: generate_pin always terminates: whenever it is in its loop, some step
\* takes it out of the loop.
C9_AllocatorTerminates ==
  \A p \in Procs : pc[p] = "gen_draw" => ENABLED GenReturn(p)

(* ------------------------------- C10 ---------------------------------- *)
\* C10: every load returns the last complete table or the complete table a
\* save in progress is writing.
C10_NoTornRead ==
  [][\A p \in Procs : Loads(p) => load_file_metadata \in {LastComplete, Pending}]_vars

(* ------------------------------- C11 ---------------------------------- *)
\* C11: whenever an upload is reported as successful with its PIN, the
\* persisted table holds a record under that PIN.
C11_ReportedPinPersisted ==
  [][\A p \in Procs : (RegisterSaved(p) \/ RegisterSaveFailed(p)) =>
        /\ out'[p] = "pin"
        /\ pin[p] \in DOMAIN load_file_metadata']_vars

(* ------------------------------- C12 ---------------------------------- *)
\* the table on disk once the save in progress, if any, has completed
Settled ==
  IF metadata_file.torn /\ file_lock # NoProc THEN Pending ELSE load_file_metadata

\* C12: when the download path has found a record whose blob is missing, it
\* ends with Absent and the record found is no longer the entry of the PIN in
\* the persisted table: after the save of its cleanup, or, when its reload
\* found no entry to delete, in the table on disk.
C12_StaleEntryRemoved ==
  [][\A p \in Procs :
       /\ StaleSaved(p) =>
            /\ out'[p] = "Absent"
            /\ Get(load_file_metadata', req[p].pin_input) = <<>>
       /\ StaleLoad(p) =>
            \/ pc'[p] = "st_open" /\ req[p].pin_input \notin DOMAIN metadata'[p]
            \/ out'[p] = "Absent" /\ Get(Settled, req[p].pin_input) # file_info[p]]_vars

(* ------------------------------- C13 ---------------------------------- *)
\* C13: every record of the persisted table references a blob that exists.
C13_RecordsHaveBlobs ==
  \A k \in DOMAIN LastComplete : LastComplete[k].filepath \in DOMAIN blobs

(* ------------------------------- C14 ---------------------------------- *)
\* the 4-digit PIN space of the specification, as far as the model draws it:
\* "0000", "0999" and the PINs of Draws
PinSpace ==
  {<<"0", "0", "0", "0">>, <<"0", "9", "9", "9">>} \cup {Format(n) : n \in Draws}

\* generate_pin of session p can return k
CanReturn(p, k) == ENABLED (\E f \in UploadedFiles(p) : GenLoad(p, f, k))

\* C14: every PIN generate_pin has returned is exactly 4 ASCII digits, and
\* every PIN of the 4-digit space that is not in the table it loads can be
\* returned.
C14_WholePinSpace ==
  \A p \in Procs :
    /\ pc[p] = "blob_write" => ValidPin(pin[p])
    /\ pc[p] = "tabs" =>
         \A k \in PinSpace \ DOMAIN load_file_metadata : CanReturn(p, k)

(* ------------------------------- C15 ---------------------------------- *)
\* PINs that uploads reported as successful
Returned == {r.pin : r \in regs}

\* C15: the lookup of a well-formed PIN that no successful upload was given
\* and that is not in the persisted table answers Absent and leaves the
\* metadata file and the blobs as they are.
C15_UnknownPinAbsent ==
  [][\A p \in Procs : \A s \in PinInputs :
       (DlLookup(p, s) /\ s \notin Returned /\ s \notin DOMAIN LastComplete) =>
          /\ out'[p] = "Absent"
          /\ pc'[p] = "admin"
          /\ metadata_file' = metadata_file
          /\ blobs' = blobs]_vars

\* a PIN never handed out was looked up, with other PINs registered, and the
\* answer is Absent
C15_Witness ==
  \E p \in Procs :
    /\ pc[p] = "admin"
    /\ out[p] = "Absent"
    /\ req[p].kind = "download"
    /\ req[p].pin_input \notin Returned
    /\ req[p].pin_input \notin DOMAIN LastComplete
    /\ LastComplete # EmptyTable
    /\ ~metadata_file.torn

(* ------------------------------- C16 ---------------------------------- *)
\* C16: a load returns the empty table when the metadata file is missing or
\* unreadable, and otherwise every record of the file, as it was saved.
C16_LoadTotal ==
  [][\A p \in Procs : Loads(p) =>
       IF ~metadata_file.exists \/ metadata_file.torn
       THEN load_file_metadata = EmptyTable
       ELSE /\ DOMAIN load_file_metadata = DOMAIN metadata_file.data
            /\ Serialize(load_file_metadata) = metadata_file.data]_vars

\* save_file_with_pin has loaded a snapshot with a record saved at hour 1 and
\* holds it, with that record, next to its own
C16_Witness ==
  \E p \in Procs :
    /\ pc[p] = "reg_open"
    /\ ~metadata_file.torn
    /\ pin[p] \notin DOMAIN LastComplete
    /\ \E k \in DOMAIN LastComplete :
         /\ LastComplete[k].upload_time = 1
         /\ k \in DOMAIN metadata[p]
         /\ metadata[p][k] = LastComplete[k]

(* ------------------------------- C17 ---------------------------------- *)
\* C17: when cleanup_old_files returns the count len(pins_to_remove), none of
\* the entries it counted is in the persisted table any more.
C17_CountedEntriesRemoved ==
  [][\A p \in Procs : (CleanupSaved(p) \/ CleanupSaveFailed(p)) =>
        \A k \in pins_to_remove[p] : k \notin DOMAIN load_file_metadata']_vars

(* ------------------------------- C18 ---------------------------------- *)
\* session p takes a step of the download path for a record that was found
\* and whose blob exists
Resolves(p) ==
  \/ \E s \in PinInputs : DlLookup(p, s) /\ out'[p] = "found"
  \/ DlExists(p) /\ pc'[p] = "dl_read"
  \/ DlRead(p)

\* the record as save_file_with_pin created it for the upload r
Created(r, info) ==
  /\ info.upload_time = r.at
  /\ info.size = Len(r.data)
  /\ info.filepath = FilePath(r.pin, info.filename)

\* C18: the download path of a record whose blob exists leaves the metadata
\* file and the blobs unchanged, and every record of the persisted table is,
\* whole, the record created for an upload under its PIN: upload_time is the
\* one set at registration.
C18_ResolveReadsOnly ==
  [][/\ \A p \in Procs : Resolves(p) => (metadata_file' = metadata_file /\ blobs' = blobs)
     /\ \A k \in DOMAIN LastComplete' :
          \E r \in regs' : r.pin = k /\ Created(r, LastComplete'[k])]_vars

\* a download has read the bytes of a record registered at hour 1 that is
\* still in the table
C18_Witness ==
  \E p \in Procs :
    /\ pc[p] = "admin"
    /\ out[p] = "bytes"
    /\ ~metadata_file.torn
    /\ \E k \in DOMAIN LastComplete : LastComplete[k].upload_time = 1

(* ------------------------------- C19 ---------------------------------- *)
\* C19: a sweep deletes neither the blob nor the entry of a record of the
\* persisted table that is within its retention window, also when the PIN of
\* that record is one the sweep lists as expired.
C19_SweepSparesLiveRecords ==
  [][\A p \in Procs :
       /\ \A k \in todo[p] : CleanupRemove(p, k) =>
            \A j \in DOMAIN LastComplete :
              (Fresh(LastComplete[j], now) /\ LastComplete[j].filepath \in DOMAIN blobs)
                => LastComplete[j].filepath \in DOMAIN blobs'
       /\ CleanupSaved(p) =>
            \A j \in pins_to_remove[p] \cap DOMAIN LastComplete :
              Fresh(LastComplete[j], now) => j \in DOMAIN LastComplete']_vars

(* ------------------------------- C20 ---------------------------------- *)
\* C20: the save of the stale-entry cleanup removes from the persisted table
\* only the entry of the PIN that was looked up: every other record of the
\* table is still there, unchanged.
C20_StaleCleanupKeepsOthers ==
  [][\A p \in Procs : StaleSaved(p) =>
        \A k \in DOMAIN LastComplete \ {req[p].pin_input} :
          /\ k \in DOMAIN LastComplete'
          /\ LastComplete'[k] = LastComplete[k]]_vars

====
